---- MODULE Spec2Model ----
(***************************************************************************)
(* SmartRedressal AI service (src/ai-service/app.py).                      *)
(*                                                                         *)
(* The service classifies a complaint (title + description) into a         *)
(* category with a confidence, a sentiment and a priority.  The model has  *)
(* two parts: the request pipeline (classify_category, analyze_sentiment,  *)
(* determine_priority, analyze_complaint) and the start-up life cycle of   *)
(* the statistical classifier (load_models / train_category_classifier),   *)
(* run by one or several worker processes over one model directory.        *)
(*                                                                         *)
(* A text is a sequence of one-character strings, so that Python's         *)
(* substring test `keyword in text` is modelled character by character.    *)
(* The fitted scikit-learn objects are opaque: what vectorizer.transform,  *)
(* classifier.predict and classifier.predict_proba do for a text is an     *)
(* input of the request (PredictOutcomes), not computed.  preprocess_text  *)
(* only feeds those calls and is not modelled; the NLTK resources it needs *)
(* are taken to be installed (lines 28-41 fetch them at import).           *)
(* A confidence is an integer number of 1/ConfScale units.                 *)
(***************************************************************************)
EXTENDS Integers, Sequences, FiniteSets, TLC

-----------------------------------------------------------------------------
(* Bounds *)

\* a description is at most MaxWords vocabulary phrases joined by spaces
MaxWords == 2

\* worker processes that may be started over the same model directory
NumWorkers == 2

Workers == 1..NumWorkers

-----------------------------------------------------------------------------
(* Keyword tables, lines 52-59, 230-235, 259-260 *)

MunicipalKeywords ==
    << <<"r","o","a","d">>, <<"s","t","r","e","e","t">>, <<"p","o","t","h","o","l","e">>,
       <<"g","a","r","b","a","g","e">>, <<"w","a","s","t","e">>, <<"d","r","a","i","n","a","g","e">>,
       <<"s","e","w","a","g","e">>, <<"s","t","r","e","e","t","l","i","g","h","t">>,
       <<"p","a","r","k">>, <<"m","u","n","i","c","i","p","a","l">>, <<"c","i","t","y">>,
       <<"u","r","b","a","n">>, <<"s","i","d","e","w","a","l","k">>,
       <<"t","r","a","f","f","i","c"," ","l","i","g","h","t">>,
       <<"p","u","b","l","i","c"," ","t","o","i","l","e","t">>,
       <<"p","u","b","l","i","c"," ","s","p","a","c","e">> >>

HealthcareKeywords ==
    << <<"h","o","s","p","i","t","a","l">>, <<"c","l","i","n","i","c">>, <<"d","o","c","t","o","r">>,
       <<"m","e","d","i","c","i","n","e">>, <<"h","e","a","l","t","h">>,
       <<"m","e","d","i","c","a","l">>, <<"t","r","e","a","t","m","e","n","t">>,
       <<"p","a","t","i","e","n","t">>, <<"a","m","b","u","l","a","n","c","e">>,
       <<"p","h","a","r","m","a","c","y">>, <<"n","u","r","s","e">>,
       <<"h","e","a","l","t","h","c","a","r","e">>, <<"h","e","a","l","t","h"," ","c","a","r","e">>,
       <<"h","e","a","r","t">>, <<"s","t","r","o","k","e">>, <<"c","a","r","d","i","a","c">>,
       <<"e","m","e","r","g","e","n","c","y">>, <<"s","u","r","g","e","r","y">>,
       <<"d","i","s","e","a","s","e">>, <<"i","l","l","n","e","s","s">>,
       <<"s","y","m","p","t","o","m">>, <<"d","i","a","g","n","o","s","i","s">>,
       <<"p","r","e","s","c","r","i","p","t","i","o","n">>,
       <<"m","e","d","i","c","a","t","i","o","n">>, <<"t","h","e","r","a","p","y">>,
       <<"v","a","c","c","i","n","e">>, <<"c","o","v","i","d">>,
       <<"c","o","r","o","n","a","v","i","r","u","s">>, <<"f","e","v","e","r">>, <<"p","a","i","n">>,
       <<"i","n","j","u","r","y">>, <<"w","o","u","n","d">>, <<"b","l","o","o","d">>,
       <<"c","a","n","c","e","r">>, <<"d","i","a","b","e","t","e","s">>,
       <<"h","y","p","e","r","t","e","n","s","i","o","n">>, <<"a","s","t","h","m","a">>,
       <<"i","n","f","e","c","t","i","o","n">>, <<"v","i","r","u","s">>,
       <<"b","a","c","t","e","r","i","a">> >>

EducationKeywords ==
    << <<"s","c","h","o","o","l">>, <<"c","o","l","l","e","g","e">>,
       <<"u","n","i","v","e","r","s","i","t","y">>, <<"t","e","a","c","h","e","r">>,
       <<"s","t","u","d","e","n","t">>, <<"e","d","u","c","a","t","i","o","n">>, <<"e","x","a","m">>,
       <<"a","d","m","i","s","s","i","o","n">>, <<"c","u","r","r","i","c","u","l","u","m">>,
       <<"t","u","i","t","i","o","n">>, <<"s","c","h","o","l","a","r","s","h","i","p">>,
       <<"t","e","x","t","b","o","o","k">>, <<"l","i","b","r","a","r","y">>,
       <<"c","l","a","s","s","r","o","o","m">>, <<"p","r","i","n","c","i","p","a","l">>,
       <<"f","a","c","u","l","t","y">> >>

TransportKeywords ==
    << <<"b","u","s">>, <<"t","r","a","i","n">>, <<"m","e","t","r","o">>,
       <<"t","r","a","f","f","i","c">>, <<"p","a","r","k","i","n","g">>,
       <<"v","e","h","i","c","l","e">>, <<"t","r","a","n","s","p","o","r","t">>, <<"r","o","a","d">>,
       <<"h","i","g","h","w","a","y">>,
       <<"p","u","b","l","i","c"," ","t","r","a","n","s","p","o","r","t">>, <<"t","a","x","i">>,
       <<"c","a","b">>, <<"s","u","b","w","a","y">>, <<"t","r","a","m">>, <<"b","i","k","e">>,
       <<"b","i","c","y","c","l","e">>, <<"l","a","n","e">> >>

UtilitiesKeywords ==
    << <<"e","l","e","c","t","r","i","c","i","t","y">>, <<"w","a","t","e","r">>,
       <<"p","o","w","e","r">>, <<"g","a","s">>, <<"i","n","t","e","r","n","e","t">>,
       <<"p","h","o","n","e">>, <<"u","t","i","l","i","t","y">>, <<"b","i","l","l">>,
       <<"c","o","n","n","e","c","t","i","o","n">>, <<"e","l","e","c","t","r","i","c">>,
       <<"p","l","u","m","b","i","n","g">>, <<"h","e","a","t","i","n","g">>,
       <<"c","o","o","l","i","n","g">>, <<"a","c">>,
       <<"a","i","r"," ","c","o","n","d","i","t","i","o","n","i","n","g">>, <<"s","e","w","e","r">>,
       <<"c","a","b","l","e">> >>

OtherKeywords == << >>

\* the dict literal, in insertion (declaration) order
CATEGORY_KEYWORDS ==
    << [category |-> "Municipal",  keywords |-> MunicipalKeywords],
       [category |-> "Healthcare", keywords |-> HealthcareKeywords],
       [category |-> "Education",  keywords |-> EducationKeywords],
       [category |-> "Transport",  keywords |-> TransportKeywords],
       [category |-> "Utilities",  keywords |-> UtilitiesKeywords],
       [category |-> "Other",      keywords |-> OtherKeywords] >>

negative_keywords ==
    << <<"b","a","d">>, <<"t","e","r","r","i","b","l","e">>, <<"a","w","f","u","l">>,
       <<"h","o","r","r","i","b","l","e">>, <<"w","o","r","s","t">>,
       <<"d","i","s","a","p","p","o","i","n","t","e","d">>,
       <<"f","r","u","s","t","r","a","t","e","d">>, <<"a","n","g","r","y">>,
       <<"u","r","g","e","n","t">>, <<"e","m","e","r","g","e","n","c","y">>,
       <<"c","r","i","t","i","c","a","l">>, <<"b","r","o","k","e","n">>, <<"f","a","i","l","e","d">>,
       <<"n","o","t"," ","w","o","r","k","i","n","g">>, <<"p","r","o","b","l","e","m">>,
       <<"i","s","s","u","e">>, <<"c","o","m","p","l","a","i","n","t">> >>

positive_keywords ==
    << <<"g","o","o","d">>, <<"g","r","e","a","t">>, <<"e","x","c","e","l","l","e","n","t">>,
       <<"s","a","t","i","s","f","i","e","d">>, <<"h","a","p","p","y">>, <<"t","h","a","n","k">>,
       <<"a","p","p","r","e","c","i","a","t","e">> >>

high_priority_keywords ==
    << <<"u","r","g","e","n","t">>, <<"e","m","e","r","g","e","n","c","y">>,
       <<"c","r","i","t","i","c","a","l">>, <<"i","m","m","e","d","i","a","t","e">>,
       <<"a","s","a","p">>, <<"d","a","n","g","e","r","o","u","s">>, <<"s","a","f","e","t","y">>,
       <<"a","c","c","i","d","e","n","t">>, <<"f","i","r","e">>, <<"f","l","o","o","d">> >>

-----------------------------------------------------------------------------
(* Text helpers *)

UpperLetters ==
    << "A","B","C","D","E","F","G","H","I","J","K","L","M",
       "N","O","P","Q","R","S","T","U","V","W","X","Y","Z" >>

LowerLetters ==
    << "a","b","c","d","e","f","g","h","i","j","k","l","m",
       "n","o","p","q","r","s","t","u","v","w","x","y","z" >>

LowerChar(c) ==
    IF \E i \in DOMAIN UpperLetters : UpperLetters[i] = c
    THEN LowerLetters[CHOOSE i \in DOMAIN UpperLetters : UpperLetters[i] = c]
    ELSE c

\* str.lower()
RECURSIVE lower(_)
lower(text) ==
    IF text = << >> THEN << >>
    ELSE << LowerChar(Head(text)) >> \o lower(Tail(text))

\* Python's `keyword in text` on strings: keyword occurs as a substring
Contains(keyword, text) ==
    \E i \in 0..(Len(text) - Len(keyword)) :
        \A j \in 1..Len(keyword) : text[i + j] = keyword[j]

\* sum(1 for keyword in keywords if keyword in text): one per list position
\* whose keyword occurs, however often it occurs
CountMatches(keywords, text) ==
    Cardinality({ i \in DOMAIN keywords : Contains(keywords[i], text) })

Min(a, b) == IF a <= b THEN a ELSE b

-----------------------------------------------------------------------------
(* Confidences: integers in units of 1/ConfScale *)

ConfScale == 2 * 3 * 5

\* 0.5, the confidence of the default answer
ConfHalf == ConfScale \div 2

\* 0.6, the threshold an ML prediction must exceed to beat a weak keyword
ConfMLThreshold == (6 * ConfScale) \div 10

\* 0.7, the cap on a weak keyword's confidence
ConfWeakCap == (7 * ConfScale) \div 10

\* round(confidence, 2), as a number of hundredths.  No confidence the
\* service produces lies half-way between two hundredths.
Round2(confidence) == (2 * 100 * confidence + ConfScale) \div (2 * ConfScale)

-----------------------------------------------------------------------------
(* classify_category, lines 157-215 *)

\* lines 172-177: the dict category_scores, as the sequence of its items in
\* insertion order; only categories with score > 0 are inserted
ScoreItem(category, score) ==
    IF score > 0 THEN << [category |-> category, score |-> score] >> ELSE << >>

RECURSIVE ScoreFrom(_, _)
ScoreFrom(i, text_lower) ==
    IF i > Len(CATEGORY_KEYWORDS) THEN << >>
    ELSE ScoreItem(CATEGORY_KEYWORDS[i].category,
                   CountMatches(CATEGORY_KEYWORDS[i].keywords, text_lower))
         \o ScoreFrom(i + 1, text_lower)

KeywordScores(text_lower) == ScoreFrom(1, text_lower)

\* a max() that keeps the last of several greatest items
RECURSIVE MaxScan_KeepsLast(_, _, _)
MaxScan_KeepsLast(category_scores, i, best) ==
    IF i > Len(category_scores) THEN best
    ELSE MaxScan_KeepsLast(category_scores, i + 1,
                           IF category_scores[i].score >= best.score
                           THEN category_scores[i] ELSE best)

MaxByScore_KeepsLast(category_scores) ==
    MaxScan_KeepsLast(category_scores, 2, category_scores[1])

\* line 181: max(category_scores, key=category_scores.get).  max() walks the
\* dict in insertion order and replaces its candidate only by a strictly
\* greater key value.
RECURSIVE MaxScan(_, _, _)
MaxScan(category_scores, i, best) ==
    IF i > Len(category_scores) THEN best
    ELSE MaxScan(category_scores, i + 1,
                 IF category_scores[i].score > best.score
                 THEN category_scores[i] ELSE best)

MaxByScore(category_scores) == MaxScan(category_scores, 2, category_scores[1])

\* What the fitted objects do when lines 198-200 run: each of the three calls
\* either raises or returns.  A label is one of classifier.classes_, the
\* training labels of lines 110-119; a probability is the largest of six
\* class probabilities, so at least 1/6.
Categories == { CATEGORY_KEYWORDS[i].category : i \in DOMAIN CATEGORY_KEYWORDS }

MLProbabilities == { ConfScale \div 6, ConfMLThreshold, ConfMLThreshold + 1, ConfScale }

PredictOutcomes ==
    { [kind |-> k, label |-> "None", proba |-> 0] :
          k \in {"transform_raises", "predict_raises"} }
    \cup { [kind |-> "predict_proba_raises", label |-> l, proba |-> 0] :
          l \in Categories }
    \cup { [kind |-> "ok", label |-> l, proba |-> p] :
          l \in Categories, p \in MLProbabilities }

\* lines 194-202: the locals ml_category, ml_confidence after the try block.
\* An estimator object is truthy, None is falsy.  The bare except leaves the
\* assignments made before the raising call in place.
MLPredict(vec, clf, outcome) ==
    IF vec # "None" /\ clf # "None"
    THEN CASE outcome.kind = "transform_raises" ->
                  [ml_category |-> "None", ml_confidence |-> 0]
           [] outcome.kind = "predict_raises" ->
                  [ml_category |-> "None", ml_confidence |-> 0]
           [] outcome.kind = "predict_proba_raises" ->
                  [ml_category |-> outcome.label, ml_confidence |-> 0]
           [] OTHER ->
                  [ml_category |-> outcome.label, ml_confidence |-> outcome.proba]
    ELSE [ml_category |-> "None", ml_confidence |-> 0]

NoScores == << >>

NoPrediction == [ml_category |-> "None", ml_confidence |-> 0]

\* Where classify_category stands after its keyword part, lines 164-191:
\* returned with (category, confidence) at line 165 or 187, or going on to
\* the model with keyword_category and keyword_confidence set by lines
\* 190-191 (here category and confidence) when a category matched.
KeywordResult(returned, category, confidence, category_scores, best_score) ==
    [returned |-> returned, category |-> category, confidence |-> confidence,
     category_scores |-> category_scores, best_score |-> best_score]

\* lines 182-191 without the min(..., 1.0) of line 186
BestMatch_NoClamp(category_scores, best) ==
    IF best.score >= 2
    THEN [returned |-> TRUE, category |-> best.category,
          confidence |-> (best.score * ConfScale) \div 5,
          category_scores |-> category_scores, best_score |-> best.score]
    ELSE [returned |-> FALSE, category |-> best.category,
          confidence |-> Min((best.score * ConfScale) \div 3, ConfWeakCap),
          category_scores |-> category_scores, best_score |-> best.score]

\* lines 182-191, best_category being the key picked at line 181
BestMatch(category_scores, best) ==
    IF best.score >= 2
    THEN KeywordResult(TRUE, best.category,
                       Min((best.score * ConfScale) \div 5, ConfScale),
                       category_scores, best.score)
    ELSE KeywordResult(FALSE, best.category,
                       Min((best.score * ConfScale) \div 3, ConfWeakCap),
                       category_scores, best.score)

\* line 180
ScoredMatch(category_scores) ==
    IF category_scores # NoScores
    THEN BestMatch(category_scores, MaxByScore(category_scores))
    ELSE KeywordResult(FALSE, "None", 0, NoScores, 0)

\* lines 164-177: the empty text returns at once, any other text is scored
\* in lower case
KeywordMatch(text) ==
    IF text = << >>
    THEN KeywordResult(TRUE, "Other", ConfHalf, NoScores, 0)
    ELSE ScoredMatch(KeywordScores(lower(text)))

\* a return value (category, confidence), with the locals category_scores,
\* ml_category and ml_confidence kept beside it
Classified(category, confidence, category_scores, ml) ==
    [category |-> category, confidence |-> confidence,
     category_scores |-> category_scores, ml |-> ml]

\* lines 204-215 with `>= 0.6` for `> 0.6` at line 208
Decide_ThresholdInclusive(keyword, ml) ==
    IF keyword.category_scores # << >> /\ keyword.best_score >= 2
    THEN [category |-> keyword.category, confidence |-> keyword.confidence,
          category_scores |-> keyword.category_scores, ml |-> ml]
    ELSE IF ml.ml_category # "None" /\ ml.ml_confidence >= ConfMLThreshold
    THEN [category |-> ml.ml_category, confidence |-> ml.ml_confidence,
          category_scores |-> keyword.category_scores, ml |-> ml]
    ELSE IF keyword.category_scores # << >>
    THEN [category |-> keyword.category, confidence |-> keyword.confidence,
          category_scores |-> keyword.category_scores, ml |-> ml]
    ELSE IF ml.ml_category # "None"
    THEN [category |-> ml.ml_category, confidence |-> ml.ml_confidence,
          category_scores |-> keyword.category_scores, ml |-> ml]
    ELSE [category |-> "Other", confidence |-> ConfHalf,
          category_scores |-> keyword.category_scores, ml |-> ml]

\* lines 204-215
Decide(keyword, ml) ==
    IF keyword.category_scores # NoScores /\ keyword.best_score >= 2
    THEN Classified(keyword.category, keyword.confidence, keyword.category_scores, ml)
    ELSE IF ml.ml_category # "None" /\ ml.ml_confidence > ConfMLThreshold
    THEN Classified(ml.ml_category, ml.ml_confidence, keyword.category_scores, ml)
    ELSE IF keyword.category_scores # NoScores
    THEN Classified(keyword.category, keyword.confidence, keyword.category_scores, ml)
    ELSE IF ml.ml_category # "None"
    THEN Classified(ml.ml_category, ml.ml_confidence, keyword.category_scores, ml)
    ELSE Classified("Other", ConfHalf, keyword.category_scores, ml)

\* lines 193-215, reached unless the keyword part returned.  vec and clf are
\* the globals vectorizer and classifier of the process that runs the call.
ModelPart(keyword, vec, clf, outcome) ==
    IF keyword.returned
    THEN Classified(keyword.category, keyword.confidence,
                    keyword.category_scores, NoPrediction)
    ELSE Decide(keyword, MLPredict(vec, clf, outcome))

-----------------------------------------------------------------------------
(* analyze_sentiment, lines 217-245 *)

\* lines 240-245 with `negative_count >= 2` for `negative_count > 2`
SentimentOf_AtLeastTwo(negative_count, positive_count) ==
    IF negative_count > positive_count /\ negative_count >= 2
    THEN "Negative"
    ELSE IF positive_count > negative_count
    THEN "Positive"
    ELSE "Neutral"

\* lines 240-245
SentimentOf(negative_count, positive_count) ==
    IF negative_count > positive_count /\ negative_count > 2
    THEN "Negative"
    ELSE IF positive_count > negative_count
    THEN "Positive"
    ELSE "Neutral"

\* lines 227-238
CountSentiment(text_lower) ==
    SentimentOf(CountMatches(negative_keywords, text_lower),
                CountMatches(positive_keywords, text_lower))

analyze_sentiment(text) ==
    IF text = << >> THEN "Neutral" ELSE CountSentiment(lower(text))

-----------------------------------------------------------------------------
(* determine_priority, lines 247-276 *)

\* line 263, over an already lowered text
AnyUrgent(text_lower) ==
    \E i \in DOMAIN high_priority_keywords :
        Contains(high_priority_keywords[i], text_lower)

\* lines 256-263 without the lower() of line 256
HasUrgency_CaseSensitive(text) == AnyUrgent(text)

\* lines 256-263: the condition of the first if
HasUrgency(text) == AnyUrgent(lower(text))

\* lines 263-276, urgent being the value of that condition
PriorityOf(urgent, sentiment, category) ==
    IF urgent
    THEN "Critical"
    ELSE IF category \in {"Healthcare", "Utilities"} /\ sentiment = "Negative"
    THEN "High"
    ELSE IF sentiment = "Negative"
    THEN "High"
    ELSE IF sentiment = "Neutral"
    THEN "Medium"
    ELSE "Low"

-----------------------------------------------------------------------------
(* analyze_complaint, lines 297-334 *)

\* A JSON value of the request body: a string, or a value that is not one
\* (a number), with the characters that format() gives it in the f-string
JsonString(chars) == [isStr |-> TRUE, chars |-> chars]
JsonNumber5 == [isStr |-> FALSE, chars |-> <<"5">>]

\* line 305: f"{title} {description}"
FullText(title, description) == title.chars \o <<" ">> \o description.chars

NoLocals == Classified("None", 0, NoScores, NoPrediction)

NoResponse == [status |-> 0]

\* lines 313-334.  Line 313 slices description, which raises TypeError on a
\* number; the handler of line 332 turns any exception into the 500 response.
Reply(description, classified, sentiment, urgent) ==
    IF ~description.isStr
    THEN [status |-> 500, detail |-> "Analysis error"]
    ELSE [status     |-> 200,
          category   |-> classified.category,
          sentiment  |-> sentiment,
          priority   |-> PriorityOf(urgent, sentiment, classified.category),
          confidence |-> Round2(classified.confidence)]

-----------------------------------------------------------------------------
(* Request bodies *)

Vocabulary ==
    << <<"r","o","a","d">>,
       <<"s","t","r","e","e","t"," ","b","u","s">>,
       <<"t","e","a","c","h","e","r">>,
       <<"c","l","i","n","i","c"," ","d","o","c","t","o","r"," ","n","u","r","s","e">>,
       <<"f","e","v","e","r"," ","p","a","i","n"," ","v","i","r","u","s">>,
       <<"U","R","G","E","N","T","!">>,
       <<"b","a","d"," ","p","r","o","b","l","e","m">>,
       <<"b","r","o","k","e","n">>,
       <<"g","r","e","a","t">> >>

RECURSIVE Join(_)
Join(ws) ==
    IF ws = << >> THEN << >>
    ELSE IF Len(ws) = 1 THEN Vocabulary[ws[1]]
    ELSE Vocabulary[ws[1]] \o <<" ">> \o Join(Tail(ws))

Titles == { JsonString(<< >>), JsonString(<<"T","h","a","n","k"," ","y","o","u">>),
            JsonString(<<"P","o","t","h","o","l","e">>) }

Descriptions ==
    { JsonString(Join(ws)) :
          ws \in UNION { [1..n -> DOMAIN Vocabulary] : n \in 0..MaxWords } }
    \cup { JsonNumber5 }

\* the one request body sent while processes start, {"title": "",
\* "description": ""}, and a few of the outcomes of the model calls
EmptyBody == { JsonString(<< >>) }

ProbeOutcomes ==
    { o \in PredictOutcomes :
          /\ o.label \in {"None", "Healthcare"}
          /\ o.proba \in {0, ConfScale \div 6} }

-----------------------------------------------------------------------------
(* State *)

VARIABLES
    pc,          \* per worker process: where it is in start-up
    vectorizer,  \* per worker process: the global of line 62
    classifier,  \* per worker process: the global of line 63
    files,       \* models/vectorizer.pkl and models/classifier.pkl
    found,       \* what those two files were when the processes started
    loads,       \* per worker process: how many calls of load_models returned
    request,     \* the request whose response is in flight
    locals,      \* classify_category's result and locals for that request
    response     \* the response in flight to the caller

vars == << pc, vectorizer, classifier, files, found, loads, request, locals, response >>

NoRequest == [worker |-> 0]

\* lines 198-200 are not reached: an object is missing, or classify_category
\* returned before them
NotCalled == [kind |-> "not_called", label |-> "None", proba |-> 0]

\* the artifact files a process can find when it starts
StartFileStates == {"absent", "corrupt", "valid"}

-----------------------------------------------------------------------------
(* Start-up, lines 337-339, and load_models, lines 136-155 *)

\* `python app.py`: __name__ is "__main__", so init_models() is called
RunAsMain(w) ==
    /\ pc[w] = "start"
    /\ pc' = [pc EXCEPT ![w] = "exists_vectorizer"]
    /\ UNCHANGED << found, vectorizer, classifier, files, loads, request, locals, response >>

\* the module is imported by a WSGI host (`flask run`, gunicorn app:app):
\* __name__ is "app", line 338 is skipped and the routes are served
ImportedByHost(w) ==
    /\ pc[w] = "start"
    /\ pc' = [pc EXCEPT ![w] = "serving"]
    /\ UNCHANGED << found, vectorizer, classifier, files, loads, request, locals, response >>

\* line 146, left operand of `and`
ExistsVectorizer(w) ==
    /\ pc[w] = "exists_vectorizer"
    /\ pc' = [pc EXCEPT ![w] = IF files.vectorizer # "absent"
                                THEN "exists_classifier" ELSE "fit_vectorizer"]
    /\ UNCHANGED << found, vectorizer, classifier, files, loads, request, locals, response >>

\* line 146, right operand; the else branch of line 151 trains
ExistsClassifier(w) ==
    /\ pc[w] = "exists_classifier"
    /\ pc' = [pc EXCEPT ![w] = IF files.classifier # "absent"
                                THEN "load_vectorizer" ELSE "fit_vectorizer"]
    /\ UNCHANGED << found, vectorizer, classifier, files, loads, request, locals, response >>

\* lines 147-148; pickle.load raises on anything but a complete pickle and
\* the handler of lines 153-155 trains
LoadVectorizer(w) ==
    /\ pc[w] = "load_vectorizer"
    /\ IF files.vectorizer = "valid"
       THEN /\ vectorizer' = [vectorizer EXCEPT ![w] = "loaded"]
            /\ pc' = [pc EXCEPT ![w] = "load_classifier"]
       ELSE /\ pc' = [pc EXCEPT ![w] = "fit_vectorizer"]
            /\ UNCHANGED vectorizer
    /\ UNCHANGED << found, classifier, files, loads, request, locals, response >>

\* lines 149-155 with a handler that only logs: no retraining after a failed load
LoadClassifier_NoRetrain(w) ==
    /\ pc[w] = "load_classifier"
    /\ classifier' = [classifier EXCEPT ![w] = IF files.classifier = "valid"
                                              THEN "loaded" ELSE @]
    /\ pc' = [pc EXCEPT ![w] = "serving"]
    /\ loads' = [loads EXCEPT ![w] = @ + 1]
    /\ UNCHANGED << found, vectorizer, files, request, locals, response >>

\* lines 149-150, then load_models and init_models return and app.run serves
LoadClassifier(w) ==
    /\ pc[w] = "load_classifier"
    /\ IF files.classifier = "valid"
       THEN /\ classifier' = [classifier EXCEPT ![w] = "loaded"]
            /\ pc' = [pc EXCEPT ![w] = "serving"]
            /\ loads' = [loads EXCEPT ![w] = @ + 1]
       ELSE /\ pc' = [pc EXCEPT ![w] = "fit_vectorizer"]
            /\ UNCHANGED << classifier, loads >>
    /\ UNCHANGED << found, vectorizer, files, request, locals, response >>

-----------------------------------------------------------------------------
(* train_category_classifier, lines 95-134.  Fitting on the fixed corpus   *)
(* and writing the files are taken not to fail.                            *)

\* lines 122-123
FitVectorizer(w) ==
    /\ pc[w] = "fit_vectorizer"
    /\ vectorizer' = [vectorizer EXCEPT ![w] = "trained"]
    /\ pc' = [pc EXCEPT ![w] = "fit_classifier"]
    /\ UNCHANGED << found, classifier, files, loads, request, locals, response >>

\* lines 126-127
FitClassifier(w) ==
    /\ pc[w] = "fit_classifier"
    /\ classifier' = [classifier EXCEPT ![w] = "trained"]
    /\ pc' = [pc EXCEPT ![w] = "open_vectorizer"]
    /\ UNCHANGED << found, vectorizer, files, loads, request, locals, response >>

\* lines 130-131: open(..., "wb") creates or truncates the file
OpenVectorizerFile(w) ==
    /\ pc[w] = "open_vectorizer"
    /\ files' = [files EXCEPT !.vectorizer = "partial"]
    /\ pc' = [pc EXCEPT ![w] = "dump_vectorizer"]
    /\ UNCHANGED << found, vectorizer, classifier, loads, request, locals, response >>

\* line 132 and the end of the with block
DumpVectorizer(w) ==
    /\ pc[w] = "dump_vectorizer"
    /\ files' = [files EXCEPT !.vectorizer = "valid"]
    /\ pc' = [pc EXCEPT ![w] = "open_classifier"]
    /\ UNCHANGED << found, vectorizer, classifier, loads, request, locals, response >>

\* line 133
OpenClassifierFile(w) ==
    /\ pc[w] = "open_classifier"
    /\ files' = [files EXCEPT !.classifier = "partial"]
    /\ pc' = [pc EXCEPT ![w] = "dump_classifier"]
    /\ UNCHANGED << found, vectorizer, classifier, loads, request, locals, response >>

\* line 134, then train_category_classifier, load_models and init_models
\* return and app.run serves
DumpClassifier(w) ==
    /\ pc[w] = "dump_classifier"
    /\ files' = [files EXCEPT !.classifier = "valid"]
    /\ pc' = [pc EXCEPT ![w] = "serving"]
    /\ loads' = [loads EXCEPT ![w] = @ + 1]
    /\ UNCHANGED << found, vectorizer, classifier, request, locals, response >>

-----------------------------------------------------------------------------
(* Requests *)

\* POST /api/analyze handled by process w, lines 297-334.  What depends on
\* the text alone is evaluated once per text, before the outcome of the
\* model calls is drawn.
analyze_complaint(w, titles, descriptions, outcomes) ==
    /\ pc[w] = "serving"
    /\ response = NoResponse
    /\ \E title \in titles, description \in descriptions :
       \E full_text \in { FullText(title, description) } :
       \E keyword \in { KeywordMatch(full_text) } :
       \E sentiment \in { analyze_sentiment(full_text) } :
       \E urgent \in { HasUrgency(full_text) } :
       \E outcome \in (IF vectorizer[w] # "None" /\ classifier[w] # "None"
                          /\ ~keyword.returned
                       THEN outcomes ELSE {NotCalled}) :
       \E classified \in { ModelPart(keyword, vectorizer[w], classifier[w], outcome) } :
          /\ request' = [worker |-> w, title |-> title,
                         description |-> description, outcome |-> outcome]
          /\ locals' = classified
          /\ response' = Reply(description, classified, sentiment, urgent)
    /\ UNCHANGED << found, pc, vectorizer, classifier, files, loads >>

\* the response reaches the caller
Deliver ==
    /\ response # NoResponse
    /\ request' = NoRequest
    /\ locals' = NoLocals
    /\ response' = NoResponse
    /\ UNCHANGED << found, pc, vectorizer, classifier, files, loads >>

-----------------------------------------------------------------------------
(* Specifications *)

\* One process that has finished starting, in each of the states start-up
\* can leave it in, answering requests with every body of Titles x
\* Descriptions.
InitServing ==
    /\ pc = [w \in Workers |-> IF w = 1 THEN "serving" ELSE "stopped"]
    /\ \E origin \in {"None", "loaded", "trained"} :
          /\ vectorizer = [w \in Workers |-> IF w = 1 THEN origin ELSE "None"]
          /\ classifier = [w \in Workers |-> IF w = 1 THEN origin ELSE "None"]
          /\ loads = [w \in Workers |-> IF w = 1 /\ origin # "None" THEN 1 ELSE 0]
          /\ files = IF origin = "None"
                     THEN [vectorizer |-> "absent", classifier |-> "absent"]
                     ELSE [vectorizer |-> "valid", classifier |-> "valid"]
          /\ found = IF origin = "loaded"
                     THEN [vectorizer |-> "valid", classifier |-> "valid"]
                     ELSE [vectorizer |-> "absent", classifier |-> "absent"]
    /\ request = NoRequest
    /\ locals = NoLocals
    /\ response = NoResponse

NextServing ==
    \/ \E w \in Workers : analyze_complaint(w, Titles, Descriptions, PredictOutcomes)
    \/ Deliver

Spec == InitServing /\ [][NextServing]_vars

StartUp(w) ==
    \/ RunAsMain(w)
    \/ ImportedByHost(w)
    \/ ExistsVectorizer(w)
    \/ ExistsClassifier(w)
    \/ LoadVectorizer(w)
    \/ LoadClassifier(w)
    \/ FitVectorizer(w)
    \/ FitClassifier(w)
    \/ OpenVectorizerFile(w)
    \/ DumpVectorizer(w)
    \/ OpenClassifierFile(w)
    \/ DumpClassifier(w)

NextLife ==
    \/ \E w \in Workers : StartUp(w)
    \/ \E w \in Workers : analyze_complaint(w, EmptyBody, EmptyBody, ProbeOutcomes)
    \/ Deliver

InitLife(started) ==
    /\ pc = [w \in Workers |-> IF w \in started THEN "start" ELSE "stopped"]
    /\ vectorizer = [w \in Workers |-> "None"]
    /\ classifier = [w \in Workers |-> "None"]
    /\ files \in [vectorizer : StartFileStates, classifier : StartFileStates]
    /\ found = files
    /\ loads = [w \in Workers |-> 0]
    /\ request = NoRequest
    /\ locals = NoLocals
    /\ response = NoResponse

\* one process started over the model directory
InitOne == InitLife({1})

SpecOne == InitOne /\ [][NextLife]_vars

\* every worker process started over the same model directory
InitAll == InitLife(Workers)

SpecAll == InitAll /\ [][NextLife]_vars

-----------------------------------------------------------------------------
(* Vocabulary of the properties *)

CategorySet == {"Municipal", "Healthcare", "Education", "Transport", "Utilities", "Other"}
Sentiments  == {"Positive", "Neutral", "Negative"}
Priorities  == {"Critical", "High", "Medium", "Low"}

Range(s) == { s[i] : i \in DOMAIN s }

\* a response is in flight: the handler has run for `request`
Handled == response # NoResponse

\* the lowercased text of the request in flight
RequestTextLower == lower(FullText(request.title, request.description))

\* the process that handled the request has both model objects
ModelLoaded == vectorizer[request.worker] # "None" /\ classifier[request.worker] # "None"

\* position of a category in the declaration order of CATEGORY_KEYWORDS
DeclaredAt(c) ==
    CHOOSE i \in DOMAIN CATEGORY_KEYWORDS : CATEGORY_KEYWORDS[i].category = c

\* the greatest count of a non-empty score map
BestCount(scores) ==
    CHOOSE n \in { scores[i].score : i \in DOMAIN scores } :
        \A i \in DOMAIN scores : scores[i].score <= n

\* the categories holding that count
TiedBest(scores) ==
    { scores[i].category : i \in { j \in DOMAIN scores : scores[j].score = BestCount(scores) } }

\* of those, the one declared first
EarliestBest(scores) ==
    CHOOSE c \in TiedBest(scores) : \A d \in TiedBest(scores) : DeclaredAt(c) <= DeclaredAt(d)

HasPrediction(ml) == ml.ml_category # "None"

\* the five-step table of the specification, section 4.4
TableResult(scores, ml) ==
    IF scores # << >> /\ BestCount(scores) >= 2
    THEN << EarliestBest(scores), Min((BestCount(scores) * ConfScale) \div 5, ConfScale) >>
    ELSE IF HasPrediction(ml) /\ ml.ml_confidence > ConfMLThreshold
    THEN << ml.ml_category, ml.ml_confidence >>
    ELSE IF scores # << >>
    THEN << EarliestBest(scores), ConfScale \div 3 >>
    ELSE IF HasPrediction(ml)
    THEN << ml.ml_category, ml.ml_confidence >>
    ELSE << "Other", ConfHalf >>

Returned(classified) == << classified.category, classified.confidence >>

-----------------------------------------------------------------------------
(* Properties of a request, under Spec *)

\* C1: a request with empty title and empty description is answered
\* Other / 0.5 / Neutral / Medium, whatever the state of the classifier.
C1_EmptyRequestDefault ==
    (Handled /\ request.title = JsonString(<< >>)
             /\ request.description = JsonString(<< >>))
    => response = [status |-> 200, category |-> "Other", sentiment |-> "Neutral",
                   priority |-> "Medium", confidence |-> 50]

\* C2: classify_category returns what the ordered five-step table gives for
\* the keyword score map and the model's outcome, for the request handled
\* and for every other outcome the model calls could have had.
C2_DecisionTable ==
    Handled =>
       /\ Returned(locals) = TableResult(locals.category_scores, locals.ml)
       /\ \A o \in PredictOutcomes :
             Returned(ModelPart(ScoredMatch(locals.category_scores),
                                vectorizer[request.worker],
                                classifier[request.worker], o))
             = TableResult(locals.category_scores,
                           MLPredict(vectorizer[request.worker],
                                     classifier[request.worker], o))

\* a weak keyword match of one category lost to a confident prediction of
\* another category (step 2 before step 3)
C2_Witness ==
    /\ Handled
    /\ Len(locals.category_scores) = 1
    /\ locals.category_scores[1].score = 1
    /\ locals.ml.ml_confidence > ConfMLThreshold
    /\ locals.category = locals.ml.ml_category
    /\ locals.category # locals.category_scores[1].category

\* C3: when the lowercased text contains an urgency keyword, the priority is
\* Critical for every sentiment and every category, and so is the priority
\* of the response.
C3_UrgencyIsCritical ==
    Handled =>
       LET text_lower == RequestTextLower
           urgent     == HasUrgency(FullText(request.title, request.description))
       IN  (\E k \in Range(high_priority_keywords) : Contains(k, text_lower))
           => /\ \A s \in Sentiments, c \in CategorySet :
                    PriorityOf(urgent, s, c) = "Critical"
              /\ response.status = 200 => response.priority = "Critical"

\* an urgent text whose sentiment is Positive, which without the keyword
\* would be Low
C3_Witness ==
    /\ Handled
    /\ response.status = 200
    /\ response.sentiment = "Positive"
    /\ response.priority = "Critical"

\* C4 as stated: a text matching exactly one keyword in each of two
\* categories resolves to the earlier-declared of the two, whatever the
\* model predicts.
C4_TieResolvesToEarlier ==
    (Handled /\ Len(locals.category_scores) = 2
             /\ \A i \in DOMAIN locals.category_scores :
                   locals.category_scores[i].score = 1)
    => locals.category = EarliestBest(locals.category_scores)

\* C4 amended: among categories tied on the greatest count the
\* earliest-declared one is selected as best, and it is the category
\* returned unless the count is 1 and the model predicts with a confidence
\* above 0.6, when the model's pair is returned.
C4_TieSelectsEarliest ==
    (Handled /\ locals.category_scores # << >>
             /\ Cardinality(TiedBest(locals.category_scores)) >= 2)
    => /\ ScoredMatch(locals.category_scores).category
             = EarliestBest(locals.category_scores)
       /\ IF BestCount(locals.category_scores) = 1
             /\ HasPrediction(locals.ml)
             /\ locals.ml.ml_confidence > ConfMLThreshold
          THEN Returned(locals) = << locals.ml.ml_category, locals.ml.ml_confidence >>
          ELSE locals.category = EarliestBest(locals.category_scores)

\* Education and Utilities tied on one keyword each ("teacher" holds
\* "teacher" and "ac"), a model that predicts without confidence, and
\* Education returned
C4_Witness ==
    /\ Handled
    /\ Len(locals.category_scores) = 2
    /\ TiedBest(locals.category_scores) = {"Education", "Utilities"}
    /\ HasPrediction(locals.ml)
    /\ locals.ml.ml_category = "Utilities"
    /\ locals.category = "Education"

\* C5: every successful result is well-formed, and the score map never
\* holds Other.
C5_WellFormed ==
    Handled =>
       /\ locals.category \in CategorySet
       /\ locals.confidence \in 0..ConfScale
       /\ \A i \in DOMAIN locals.category_scores :
             /\ locals.category_scores[i].category \in CategorySet \ {"Other"}
             /\ locals.category_scores[i].score > 0
       /\ response.status = 200 =>
             /\ response.category \in CategorySet
             /\ response.confidence \in 0..100
             /\ response.sentiment \in Sentiments
             /\ response.priority \in Priorities

\* six keywords of one category: the count over five is clamped to 1.0
C5_Witness ==
    /\ Handled
    /\ response.status = 200
    /\ locals.category_scores # << >>
    /\ BestCount(locals.category_scores) >= 6
    /\ response.confidence = 100

\* C6: the sentiment is Negative exactly when the negative keywords that
\* occur outnumber the positive ones and are more than two, otherwise
\* Positive exactly when the positive ones outnumber the negative ones,
\* otherwise Neutral; a keyword counts once however often it occurs; the
\* empty text is Neutral.
C6_SentimentRule ==
    /\ analyze_sentiment(<< >>) = "Neutral"
    /\ (Handled /\ response.status = 200) =>
          LET text_lower == RequestTextLower
              neg == Cardinality({ k \in Range(negative_keywords) : Contains(k, text_lower) })
              pos == Cardinality({ k \in Range(positive_keywords) : Contains(k, text_lower) })
          IN  /\ (response.sentiment = "Negative") <=> (neg > pos /\ neg > 2)
              /\ (response.sentiment = "Positive") <=> (~(neg > pos /\ neg > 2) /\ pos > neg)
              /\ (response.sentiment = "Neutral")
                    <=> (~(neg > pos /\ neg > 2) /\ ~(pos > neg))

\* "bad problem bad problem": four occurrences of two negative keywords
\* count two, which is not more than two
C6_Witness ==
    /\ Handled
    /\ response.status = 200
    /\ request.title = JsonString(<< >>)
    /\ request.description = JsonString(Join(<< 7, 7 >>))
    /\ response.sentiment = "Neutral"

\* the request was handled without a usable prediction: an object is
\* missing, or one of the three model calls raised
PredictionFailed ==
    \/ ~ModelLoaded
    \/ request.outcome.kind \in {"transform_raises", "predict_raises", "predict_proba_raises"}

\* C7: a failure while producing the prediction yields no error response,
\* and the result is the one the keywords alone give.
C7_FailureMeansNoPrediction ==
    (Handled /\ PredictionFailed) =>
       /\ request.description.isStr => response.status = 200
       /\ Returned(locals) = TableResult(locals.category_scores, NoPrediction)

-----------------------------------------------------------------------------
(* Properties of start-up, under SpecOne and SpecAll *)

BothValid == [vectorizer |-> "valid", classifier |-> "valid"]

\* process w is inside train_category_classifier
Training(w) ==
    pc[w] \in {"fit_vectorizer", "fit_classifier", "open_vectorizer",
               "dump_vectorizer", "open_classifier", "dump_classifier"}

\* process w is inside load_models (training included)
Loading(w) ==
    \/ pc[w] \in {"exists_vectorizer", "exists_classifier",
                  "load_vectorizer", "load_classifier"}
    \/ Training(w)

\* load_models has returned in process w
LoadReturned(w) == pc[w] = "serving" /\ loads[w] >= 1

\* C8: in every execution the load-or-train step has run to completion
\* exactly once before a request is handled, so no request is evaluated
\* with vectorizer or classifier unset.
C8_LoadedBeforeFirstRequest ==
    /\ \A w \in Workers : loads[w] <= 1
    /\ Handled => (loads[request.worker] = 1 /\ ModelLoaded)

\* C9: whatever the two artifact files were, load_models comes to its end;
\* it retrains unless both files loaded; it leaves vectorizer and classifier
\* both loaded or both trained; and after training both files are written.
C9_LoadOrTrain ==
    \A w \in Workers :
       /\ Loading(w) => ENABLED StartUp(w)
       /\ LoadReturned(w) =>
             /\ vectorizer[w] \in {"loaded", "trained"}
             /\ classifier[w] = vectorizer[w]
             /\ found # BothValid => vectorizer[w] = "trained"
             /\ vectorizer[w] = "trained" => files = BothValid

\* vectorizer.pkl loaded, classifier.pkl did not: both objects retrained
\* and both files rewritten
C9_Witness ==
    /\ LoadReturned(1)
    /\ found = [vectorizer |-> "valid", classifier |-> "corrupt"]
    /\ vectorizer[1] = "trained"
    /\ classifier[1] = "trained"
    /\ files = BothValid

\* C10: with several workers starting over the same model directory, no two
\* are inside train_category_classifier at once, and none ends start-up with
\* a classifier that is not a complete pair.
C10_SingleTrainer ==
    /\ \A v, w \in Workers : (Training(v) /\ Training(w)) => v = w
    /\ \A w \in Workers :
          LoadReturned(w) => (vectorizer[w] \in {"loaded", "trained"}
                              /\ classifier[w] = vectorizer[w])

====
